---- MODULE Spec2Model ----
(***************************************************************************)
(* Model of src/main.py: pairwise IoU (compute_iou), the greedy one-to-one *)
(* matching loop and the per-label counters and ratios of main.            *)
(*                                                                         *)
(* float32 values are represented by their IEEE-754 bit pattern read as an *)
(* integer (sign handled by negating), which orders them as the floats are *)
(* ordered: 0.0 is 0, 1.0 is 127 * 2^23, +inf is 255 * 2^23.               *)
(***************************************************************************)
EXTENDS Integers, Sequences, FiniteSets

\* ---------------------------------------------------------------- bounds
MaxTrueRows == 2       \* ground-truth rows in the whole file (pipeline runs)
MaxPredRows == 2       \* detection rows in the whole file (pipeline runs)
MatchMaxTrue == 2      \* ground-truth boxes of the single group (matcher runs)
MatchMaxPred == 2      \* predictions of the single group (matcher runs)
NumImages == 2         \* distinct image names
MaxMatches == 4        \* cap on the iterations explored of a loop that never exits

\* ---------------------------------------------------------------- floats
PosInf == 255 * 2^23
NegInf == 0 - PosInf
NaN == 255 * 2^23 + 2^22
Zero32 == 0
One32 == 127 * 2^23

\* The stop test written with <= instead of <
LessOrEqual(a, b) == a # NaN /\ b # NaN /\ a <= b

\* a < b on floats: every comparison with NaN is False
Less(a, b) == a # NaN /\ b # NaN /\ a < b

\* Smallest k >= 0 with n * 2^k >= d, and that n * 2^k (for 0 < n <= d)
RECURSIVE Normalize(_, _, _)
Normalize(n, d, k) == IF n >= d THEN <<n, k>> ELSE Normalize(2 * n, d, k + 1)

\* Binary long division: the next `bits` bits of r / d (0 <= r < d), as
\* <<mantissa, remainder>>
RECURSIVE Fraction(_, _, _, _)
Fraction(r, d, bits, m) ==
    IF bits = 0 THEN <<m, r>>
    ELSE IF 2 * r >= d THEN Fraction(2 * r - d, d, bits - 1, 2 * m + 1)
         ELSE Fraction(2 * r, d, bits - 1, 2 * m)

\* The float32 nearest to n / d for 0 <= n <= d, d >= 1 (round to nearest,
\* ties to even).  The float64 quotient of line 31 is rounded a second time
\* by astype(float32); for d < 2^27 the quotient is never close enough to a
\* float32 midpoint for the two roundings to differ from one.
Float32Div(n, d) ==
    IF n = 0 THEN Zero32
    ELSE LET nk == Normalize(n, d, 0)
             fr == Fraction(nk[1] - d, d, 23, 0)
             m  == fr[1]
             r  == fr[2]
             up == (2 * r > d) \/ (2 * r = d /\ m % 2 = 1)
         IN  (127 - nk[2]) * 2^23 + m + (IF up THEN 1 ELSE 0)

Max(a, b) == IF a >= b THEN a ELSE b
Min(a, b) == IF a <= b THEN a ELSE b

\* ---------------------------------------------------------------- boxes
Box(l, t, r, b) == [left |-> l, top |-> t, right |-> r, bottom |-> b]

Area(b) == (b.right - b.left) * (b.bottom - b.top)

IntersectionArea(b1, b2) ==
    LET w == Max(0, Min(b1.right, b2.right) - Max(b1.left, b2.left))
        h == Max(0, Min(b1.bottom, b2.bottom) - Max(b1.top, b2.top))
    IN  w * h

\* One entry of compute_iou.  union_area is floored at 1e-32, so a union of
\* 0 or less divides by 1e-32: 0 stays 0, anything positive clips to 1.
IoU(b1, b2) ==
    LET inter == IntersectionArea(b1, b2)
        union == Area(b1) + Area(b2) - inter
    IN  IF inter = 0 THEN Zero32
        ELSE IF union < 1 \/ inter >= union THEN One32
        ELSE Float32Div(inter, union)

Rows(boxes) == 0 .. (Len(boxes) - 1)

compute_iou(boxes1, boxes2) ==
    [rc \in Rows(boxes1) \X Rows(boxes2) |-> IoU(boxes1[rc[1] + 1], boxes2[rc[2] + 1])]


\* An argmax that keeps the last index that holds the maximum
argmaxLast(mat, n) ==
    LET flat == [i \in 0 .. (Cardinality(DOMAIN mat) - 1) |-> mat[<<i \div n, i % n>>]]
    IN  CHOOSE i \in DOMAIN flat :
            \A j \in DOMAIN flat : flat[j] <= flat[i] /\ (j > i => flat[j] < flat[i])

\* np.argmax over the flattened (row-major) matrix: the first index that
\* holds the maximum
argmax(mat, n) ==
    LET flat == [i \in 0 .. (Cardinality(DOMAIN mat) - 1) |-> mat[<<i \div n, i % n>>]]
    IN  CHOOSE i \in DOMAIN flat :
            \A j \in DOMAIN flat : flat[j] <= flat[i] /\ (j < i => flat[j] < flat[i])

unravel_index(i, n) == <<i \div n, i % n>>

\* ---------------------------------------------------------------- inputs
LabelOrder == <<"cat", "dog">>
Labels == {LabelOrder[i] : i \in DOMAIN LabelOrder}

\* The (image_name, label) keys in the sorted order groupby yields them
Keys == 1 .. (NumImages * Len(LabelOrder))
KeyLabel(k) == LabelOrder[((k - 1) % Len(LabelOrder)) + 1]

Big == 2^25

\* BoxA and BoxB overlap by half of BoxA, BoxB touches BoxC and BoxD without
\* overlapping them, BoxC and BoxD differ in one pixel row out of 2^25
BoxA == Box(0, 0, 2, 2)
BoxB == Box(1, 0, 2, 2)
BoxC == Box(0, 0, 1, Big)
BoxD == Box(0, 0, 1, Big + 1)

PipelineBoxes == {BoxA}
MatchBoxes == {BoxA, BoxB, BoxC, BoxD}

Half32 == Float32Div(1, 2)
\* The -t option is a float: click accepts inf, -inf and nan as well.  The
\* finite values are exactly representable in float32, so the comparison of
\* line 85 gives the same answer whether it is made in float32 or float64.
Thresholds == {NegInf, 0 - Half32, Zero32, Half32, One32, PosInf, NaN}

SeqsUpTo(S, n) == UNION {[1 .. k -> S] : k \in 0 .. n}

RECURSIVE TotalRows(_, _)
TotalRows(df, k) == IF k = 0 THEN 0 ELSE Len(df[k]) + TotalRows(df, k - 1)

RowsOfLabel(df, label) ==
    LET RECURSIVE Sum(_)
        Sum(k) == IF k = 0 THEN 0
                  ELSE (IF KeyLabel(k) = label THEN Len(df[k]) ELSE 0) + Sum(k - 1)
    IN  Sum(NumImages * Len(LabelOrder))

\* ---------------------------------------------------------------- state
VARIABLES
    t,                  \* the overlap threshold
    ground_truth,       \* key -> its ground-truth boxes, in file order
    detection_results,  \* key -> its predicted boxes, in file order
    pc,                 \* "for_groups", "while", "for_labels", "done", "raised"
    group_index,        \* position of the groupby iteration
    true_df, pred_df,   \* boxes of the current group
    pairwise_iou,       \* the overlap matrix, masked in place
    used_rows, used_cols,
    matches,            \* the (row, col) pairs recorded for the current group, in order
    acc_metrics,        \* label -> counters
    acc_labels,         \* the labels of acc_metrics in insertion order
    label_index,        \* position of the final loop over acc_metrics
    output,             \* labels whose ratios were printed, in order
    error               \* the division that raised ZeroDivisionError, or "none"

vars == <<t, ground_truth, detection_results, pc, group_index, true_df, pred_df,
          pairwise_iou, used_rows, used_cols, matches, acc_metrics, acc_labels,
          label_index, output, error>>

\* ground_truth.groupby(['image_name', 'label']): the keys that have rows,
\* sorted
RECURSIVE GroupsFrom(_, _)
GroupsFrom(df, k) ==
    IF k > NumImages * Len(LabelOrder) THEN <<>>
    ELSE (IF Len(df[k]) > 0 THEN <<k>> ELSE <<>>) \o GroupsFrom(df, k + 1)

groups == GroupsFrom(ground_truth, 1)

\* defaultdict(int): a counter reads 0 until it is first written
NoMetrics == [total_true |-> 0, total_pred |-> 0, true_positive |-> 0,
              false_negative |-> 0, false_positive |-> 0]

Metrics(label) == IF label \in DOMAIN acc_metrics THEN acc_metrics[label] ELSE NoMetrics

Store(acc, label, m) == [l \in (DOMAIN acc) \cup {label} |-> IF l = label THEN m ELSE acc[l]]

Touch(order, label) ==
    IF \E i \in DOMAIN order : order[i] = label THEN order ELSE Append(order, label)

Start ==
    /\ pc = "for_groups"
    /\ group_index = 1
    /\ true_df = <<>> /\ pred_df = <<>>
    /\ pairwise_iou = <<>>
    /\ used_rows = {} /\ used_cols = {}
    /\ matches = <<>>
    /\ acc_metrics = <<>>
    /\ acc_labels = <<>>
    /\ label_index = 1
    /\ output = <<>>
    /\ error = "none"

\* A run over whole files: several images and labels, few rows.  Both files
\* hold at least one row.
Init ==
    /\ t \in Thresholds
    /\ ground_truth \in [Keys -> SeqsUpTo(PipelineBoxes, MaxTrueRows)]
    /\ TotalRows(ground_truth, NumImages * Len(LabelOrder)) \in 1 .. MaxTrueRows
    /\ detection_results \in [Keys -> SeqsUpTo(PipelineBoxes, MaxPredRows)]
    /\ TotalRows(detection_results, NumImages * Len(LabelOrder)) \in 1 .. MaxPredRows
    /\ Start

\* A run over one (image, label) group with a richer choice of boxes.  When
\* the group has no prediction, the detections file holds one row of the
\* other label.
InitMatch ==
    /\ t \in Thresholds
    /\ \E s \in SeqsUpTo(MatchBoxes, MatchMaxTrue) :
          /\ s # <<>>
          /\ ground_truth = [k \in Keys |-> IF k = 1 THEN s ELSE <<>>]
    /\ \E s \in SeqsUpTo(MatchBoxes, MatchMaxPred) :
          detection_results = [k \in Keys |->
              IF k = 1 THEN s ELSE IF k = 2 /\ s = <<>> THEN <<BoxA>> ELSE <<>>]
    /\ Start

\* ---------------------------------------------------------------- main
AfterGroup(gi) == IF gi <= Len(groups) THEN "for_groups" ELSE "for_labels"

\* The unmatched count taken over range(1, n + 1) instead of range(n)
UnmatchedFromOne(n, used) == Cardinality((1 .. n) \ used)

Unmatched(n, used) == Cardinality((0 .. (n - 1)) \ used)

\* lines 61-69: a group without predictions
GroupNoPredictions ==
    /\ pc = "for_groups"
    /\ group_index <= Len(groups)
    /\ LET key == groups[group_index]
           label == KeyLabel(key)
           m == Metrics(label)
       IN  /\ Len(detection_results[key]) = 0
           /\ true_df' = ground_truth[key]
           /\ pred_df' = detection_results[key]
           /\ acc_metrics' = Store(acc_metrics, label,
                 [m EXCEPT !.total_true = @ + Len(ground_truth[key]),
                           !.total_pred = @ + Len(detection_results[key]),
                           !.false_negative = @ + Len(ground_truth[key])])
           /\ acc_labels' = Touch(acc_labels, label)
    /\ group_index' = group_index + 1
    /\ pc' = AfterGroup(group_index + 1)
    /\ UNCHANGED <<t, ground_truth, detection_results, pairwise_iou, used_rows,
                   used_cols, matches, label_index, output, error>>

\* lines 61-79: a group with predictions, up to the loop
GroupStartMatching ==
    /\ pc = "for_groups"
    /\ group_index <= Len(groups)
    /\ LET key == groups[group_index]
           label == KeyLabel(key)
           m == Metrics(label)
       IN  /\ Len(detection_results[key]) > 0
           /\ true_df' = ground_truth[key]
           /\ pred_df' = detection_results[key]
           /\ acc_metrics' = Store(acc_metrics, label,
                 [m EXCEPT !.total_true = @ + Len(ground_truth[key]),
                           !.total_pred = @ + Len(detection_results[key])])
           /\ acc_labels' = Touch(acc_labels, label)
           /\ pairwise_iou' = compute_iou(ground_truth[key], detection_results[key])
    /\ used_rows' = {} /\ used_cols' = {}
    /\ matches' = <<>>
    /\ pc' = "while"
    /\ UNCHANGED <<t, ground_truth, detection_results, group_index, label_index,
                   output, error>>

ArgMaxPair == unravel_index(argmax(pairwise_iou, Len(pred_df)), Len(pred_df))

\* lines 82-94: an iteration that records a match
MatchIteration ==
    /\ pc = "while"
    /\ Len(matches) < MaxMatches
    /\ LET rc == ArgMaxPair
           label == KeyLabel(groups[group_index])
       IN  /\ ~ Less(pairwise_iou[rc], t)
           /\ pairwise_iou' = [o \in DOMAIN pairwise_iou |->
                 IF o[1] = rc[1] \/ o[2] = rc[2] THEN NegInf ELSE pairwise_iou[o]]
           /\ used_rows' = used_rows \cup {rc[1]}
           /\ used_cols' = used_cols \cup {rc[2]}
           /\ matches' = Append(matches, rc)
           /\ acc_metrics' = [acc_metrics EXCEPT ![label].true_positive = @ + 1]
    /\ UNCHANGED <<t, ground_truth, detection_results, pc, group_index, true_df,
                   pred_df, acc_labels, label_index, output, error>>

\* lines 82-86, 96-97: the iteration that breaks, and the unmatched counts
BreakAndCount ==
    /\ pc = "while"
    /\ LET rc == ArgMaxPair
           label == KeyLabel(groups[group_index])
       IN  /\ Less(pairwise_iou[rc], t)
           /\ acc_metrics' = [acc_metrics EXCEPT
                 ![label].false_negative = @ + Unmatched(Len(true_df), used_rows),
                 ![label].false_positive = @ + Unmatched(Len(pred_df), used_cols)]
    /\ group_index' = group_index + 1
    /\ pc' = AfterGroup(group_index + 1)
    /\ UNCHANGED <<t, ground_truth, detection_results, true_df, pred_df,
                   pairwise_iou, used_rows, used_cols, matches, acc_labels,
                   label_index, output, error>>

\* Divisions guarded against a zero divisor: nothing raises
ZeroDivisionGuarded(m) == "none"

\* Only the F1 division guarded
ZeroDivisionF1Guarded(m) ==
    IF m.true_positive + m.false_positive = 0 THEN "precision"
    ELSE IF m.true_positive + m.false_negative = 0 THEN "recall"
    ELSE "none"

\* lines 100-102: the first of the three divisions whose divisor is zero.
\* precision + recall is a sum of two non-negative floats, zero only when
\* both are, that is when true_positive is 0.
ZeroDivision(m) ==
    IF m.true_positive + m.false_positive = 0 THEN "precision"
    ELSE IF m.true_positive + m.false_negative = 0 THEN "recall"
    ELSE IF m.true_positive * (m.true_positive + m.false_negative)
            + m.true_positive * (m.true_positive + m.false_positive) = 0 THEN "f1_score"
    ELSE "none"

\* lines 99-108: a label whose ratios are computed and printed
ReportLabel ==
    /\ pc = "for_labels"
    /\ label_index <= Len(acc_labels)
    /\ ZeroDivision(acc_metrics[acc_labels[label_index]]) = "none"
    /\ output' = Append(output, acc_labels[label_index])
    /\ label_index' = label_index + 1
    /\ pc' = IF label_index + 1 > Len(acc_labels) THEN "done" ELSE "for_labels"
    /\ UNCHANGED <<t, ground_truth, detection_results, group_index, true_df, pred_df,
                   pairwise_iou, used_rows, used_cols, matches, acc_metrics,
                   acc_labels, error>>

\* lines 100-102: ZeroDivisionError, not caught anywhere: the run ends
ReportRaise ==
    /\ pc = "for_labels"
    /\ label_index <= Len(acc_labels)
    /\ ZeroDivision(acc_metrics[acc_labels[label_index]]) # "none"
    /\ error' = ZeroDivision(acc_metrics[acc_labels[label_index]])
    /\ pc' = "raised"
    /\ UNCHANGED <<t, ground_truth, detection_results, group_index, true_df, pred_df,
                   pairwise_iou, used_rows, used_cols, matches, acc_metrics,
                   acc_labels, label_index, output>>

Next ==
    \/ GroupNoPredictions
    \/ GroupStartMatching
    \/ MatchIteration
    \/ BreakAndCount
    \/ ReportLabel
    \/ ReportRaise

Spec == Init /\ [][Next]_vars

SpecMatch == InitMatch /\ [][Next]_vars

\* ---------------------------------------------------------------- properties
\* The overlap matrix of the current group as compute_iou returned it
Original == compute_iou(true_df, pred_df)

\* The current group went through the matching loop
Matching == Len(true_df) > 0 /\ Len(pred_df) > 0

\* The groupby loop is between groups, or over
BetweenGroups == pc \in {"for_groups", "for_labels", "done", "raised"}

\* The groupby loop is over
GroupsOver == pc \in {"for_labels", "done", "raised"}

Finite(x) == x \notin {NaN, PosInf, NegInf}

MatchedRows(k) == {matches[i][1] : i \in 1 .. k}
MatchedCols(k) == {matches[i][2] : i \in 1 .. k}

\* C1: no row (ground-truth box) and no column (prediction) is recorded in
\* more than one match of a group, so the used rows, the used columns and
\* the true-positive increments of the group are equally many.
C1_NoRowOrColumnReused ==
    Matching =>
        /\ \A i, j \in 1 .. Len(matches) :
              i # j => matches[i][1] # matches[j][1] /\ matches[i][2] # matches[j][2]
        /\ Cardinality(used_rows) = Len(matches)
        /\ Cardinality(used_cols) = Len(matches)

\* C2: between groups, every label's counters satisfy true_positive +
\* false_negative = total_true and true_positive + false_positive =
\* total_pred, the no-predictions shortcut included.
C2_CountersAddUp ==
    BetweenGroups =>
        \A label \in DOMAIN acc_metrics :
            LET m == acc_metrics[label]
            IN  /\ m.true_positive + m.false_negative = m.total_true
                /\ m.true_positive + m.false_positive = m.total_pred

\* A label that was fed by a matched group and by a shortcut group
C2_Witness ==
    /\ pc = "for_labels"
    /\ group_index > 2
    /\ pred_df = <<>>
    /\ \E label \in DOMAIN acc_metrics :
          /\ acc_metrics[label].true_positive >= 1
          /\ acc_metrics[label].false_negative >= 1
          /\ acc_metrics[label].total_true >= 2

\* C3: after the groups, every prediction of the input has been counted as
\* one true positive or one false positive of its label, predictions of a
\* group without ground truth included.
C3_EveryPredictionCounted ==
    GroupsOver =>
        \A label \in Labels :
            Metrics(label).true_positive + Metrics(label).false_positive
                = RowsOfLabel(detection_results, label)

\* C4: the loop records at most min(M, N) matches for a group, whatever the
\* threshold.
C4_AtMostMinIterations ==
    Matching => Len(matches) <= Min(Len(true_df), Len(pred_df))

\* C5: the pair an iteration selects holds the maximum of the current
\* matrix and is the first such entry in row-major order: no entry of a
\* smaller row, and none of the same row and a smaller column, holds it.
C5_FirstMaximumRowMajor ==
    [][Len(matches') = Len(matches) + 1 =>
          LET rc == matches'[Len(matches')]
          IN  \A o \in DOMAIN pairwise_iou :
                  /\ pairwise_iou[o] <= pairwise_iou[rc]
                  /\ pairwise_iou[o] = pairwise_iou[rc] =>
                        (o[1] > rc[1] \/ (o[1] = rc[1] /\ o[2] >= rc[2]))]_vars

\* The first match was chosen among several entries that held the maximum,
\* one of them in a later row and one in a later column of the same row
C5_Witness ==
    /\ Matching
    /\ Len(matches) >= 1
    /\ \E o \in DOMAIN Original :
          Original[o] = Original[matches[1]] /\ o[1] > matches[1][1]
    /\ \E o \in DOMAIN Original :
          Original[o] = Original[matches[1]] /\ o[1] = matches[1][1] /\ o[2] > matches[1][2]

\* C6: a label with true_positive + false_positive = 0 or true_positive +
\* false_negative = 0 makes the final loop raise: the run does not complete,
\* and neither that label nor any label after it is printed.
C6_ZeroDivisionEndsRun ==
    GroupsOver =>
        \A i \in 1 .. Len(acc_labels) :
            LET m == acc_metrics[acc_labels[i]]
            IN  (m.true_positive + m.false_positive = 0
                    \/ m.true_positive + m.false_negative = 0) =>
                  /\ pc # "done"
                  /\ label_index <= i
                  /\ Len(output) < i
                  /\ \A j \in i .. Len(acc_labels) :
                        \A k \in 1 .. Len(output) : output[k] # acc_labels[j]
                  /\ (pc = "raised" /\ label_index = i) => error \in {"precision", "recall"}

\* The first label raised, and the label after it, which would have been
\* printed, was not
C6_Witness ==
    /\ pc = "raised"
    /\ error = "precision"
    /\ label_index = 1
    /\ Len(acc_labels) = 2
    /\ acc_metrics[acc_labels[2]].true_positive >= 1
    /\ output = <<>>

\* C7: with threshold 1, every pair the loop records is a pair of boxes
\* with identical coordinates.
C7_ThresholdOneIdenticalBoxes ==
    (t = One32 /\ Matching) =>
        \A k \in 1 .. Len(matches) :
            true_df[matches[k][1] + 1] = pred_df[matches[k][2] + 1]

\* C8: every recorded match is a pair of an unconsumed row and an unconsumed
\* column, of maximum IoU among the unconsumed pairs and of IoU >= t; once
\* the loop has stopped, every pair of an unmatched row and an unmatched
\* column has IoU < t.
C8_MatchesWhileMaximumAtLeastT ==
    Matching =>
        /\ \A k \in 1 .. Len(matches) :
              LET rc == matches[k]
              IN  /\ rc[1] \notin MatchedRows(k - 1)
                  /\ rc[2] \notin MatchedCols(k - 1)
                  /\ Original[rc] # NaN /\ t # NaN /\ Original[rc] >= t
                  /\ \A o \in DOMAIN Original :
                        (o[1] \notin MatchedRows(k - 1) /\ o[2] \notin MatchedCols(k - 1))
                            => Original[o] <= Original[rc]
        /\ pc # "while" =>
              \A o \in DOMAIN Original :
                  (o[1] \notin used_rows /\ o[2] \notin used_cols) => Less(Original[o], t)

\* C9: at the end every label has total_true = true_positive +
\* false_negative >= 1, so the recall division never raises; a label whose
\* ratios were printed has true_positive >= 1, and the label that raised has
\* true_positive = 0, in the precision division when false_positive is 0 as
\* well and in the F1 division otherwise.
C9_RaisesIffNoTruePositive ==
    GroupsOver =>
        /\ error # "recall"
        /\ \A i \in 1 .. Len(acc_labels) :
              LET m == acc_metrics[acc_labels[i]]
              IN  /\ m.total_true >= 1
                  /\ m.true_positive + m.false_negative = m.total_true
                  /\ i < label_index => (m.true_positive >= 1 /\ output[i] = acc_labels[i])
                  /\ (pc = "raised" /\ i = label_index) =>
                        /\ m.true_positive = 0
                        /\ error = (IF m.false_positive = 0 THEN "precision" ELSE "f1_score")
                  /\ m.true_positive >= 1 => ZeroDivision(m) = "none"
        /\ pc = "done" => Len(output) = Len(acc_labels)

\* A label with a false negative and a false positive and no true positive
\* raised in the F1 division
C9_Witness ==
    /\ pc = "raised"
    /\ error = "f1_score"
    /\ acc_metrics[acc_labels[label_index]].true_positive = 0
    /\ acc_metrics[acc_labels[label_index]].false_negative >= 1
    /\ acc_metrics[acc_labels[label_index]].false_positive >= 1

\* C10: with a finite threshold t <= 0, a group with M >= 1 and N >= 1
\* leaves the loop with exactly min(M, N) recorded matches, whatever the
\* boxes, and only once every row or every column is masked.
C10_NonPositiveThresholdMatchesAll ==
    (Finite(t) /\ t <= Zero32 /\ Matching /\ pc # "while") =>
        /\ Len(matches) = Min(Len(true_df), Len(pred_df))
        /\ Cardinality(used_rows) = Min(Len(true_df), Len(pred_df))
        /\ Cardinality(used_cols) = Min(Len(true_df), Len(pred_df))
        /\ used_rows = Rows(true_df) \/ used_cols = Rows(pred_df)
        /\ \A o \in DOMAIN pairwise_iou : pairwise_iou[o] = NegInf

\* With threshold 0, two pairs were recorded and one of them is a pair of
\* boxes that do not overlap
C10_Witness ==
    /\ t = Zero32
    /\ Matching
    /\ pc # "while"
    /\ Len(matches) = 2
    /\ \E k \in 1 .. Len(matches) : Original[matches[k]] = Zero32

====
